---- MODULE Spec2Model ----
(***************************************************************************)
(* Model of src/src/main.c: the boot sequencer (main), the initialization  *)
(* gate (init_rutine), the heartbeat task (hb_task) and the serial task    *)
(* (serial_task), running on a priority scheduler with timed sleeps.       *)
(***************************************************************************)
EXTENDS Integers, Sequences, FiniteSets

\* ---------------------------------------------------------------- constants

HB_TASK_PRIORITY == 5

SERIAL_TASK_PRIORITY == 6

\* k_msleep( 1000 ) in hb_task
HB_SLEEP_MS == 1000

\* k_msleep( 500 ) in serial_task
SERIAL_SLEEP_MS == 500

\* ------------------------------------------------------------------- bounds

\* Milliseconds that pass in one step of the clock.
TimeStep == 250

\* The call counters stop counting here (they saturate, the calls go on).
MaxCount == 3

\* ------------------------------------------------------------------ helpers

\* Status values a GPIO driver call returns: 0, or a negative errno (-EIO).
DriverStatus == {0, -5}

Bump(n) == IF n < MaxCount THEN n + 1 ELSE n

Min(a, b) == IF a < b THEN a ELSE b

\* A struct k_thread that k_thread_create has not initialised yet.
UnusedTcb == [state |-> "unused", prio |-> 0, timeout |-> 0, pc |-> "none"]

\* ---------------------------------------------------------------- variables

VARIABLES
    main_pc,          \* position of main (and of init_rutine, called by it)
    dev_ready,        \* what gpio_is_ready_dt( &hb_led ) answers on this boot
    is_ready_calls,   \* calls of gpio_is_ready_dt so far
    configure_calls,  \* calls of gpio_pin_configure_dt so far
    configure_ret,    \* status the last gpio_pin_configure_dt returned
    init_ret,         \* the value main reads as init_rutine's result
    init_ret_defined, \* TRUE iff init_rutine left through a return statement
    console,          \* the printk output, a sequence of lines
    pin_mode,         \* "disconnected" or "output"
    pin_level,        \* logical level of the heartbeat line
    hb_task_id,       \* static k_tid_t hb_task_id
    serial_task_id,   \* static k_tid_t serial_task_id
    hb_task_tcb,      \* static struct k_thread hb_task_tcb
    serial_task_tcb,  \* static struct k_thread serial_task_tcb
    hb_creates,       \* k_thread_create calls on hb_task_tcb
    serial_creates,   \* k_thread_create calls on serial_task_tcb
    hb_toggles,       \* gpio_pin_toggle_dt calls of hb_task (saturating)
    hb_toggles_ok,    \* those that returned 0 (saturating)
    hb_sleeps,        \* k_msleep calls of hb_task (saturating)
    serial_sleeps,    \* k_msleep calls of serial_task (saturating)
    since_toggle      \* ms since the last gpio_pin_toggle_dt call, since boot
                      \* before the first (saturating at HB_SLEEP_MS)

vars == <<main_pc, dev_ready, is_ready_calls, configure_calls, configure_ret,
          init_ret, init_ret_defined, console, pin_mode, pin_level,
          hb_task_id, serial_task_id, hb_task_tcb, serial_task_tcb,
          hb_creates, serial_creates, hb_toggles, hb_toggles_ok, hb_sleeps,
          serial_sleeps, since_toggle>>

gateVars == <<dev_ready, is_ready_calls, configure_calls, configure_ret,
              init_ret, init_ret_defined>>

pinVars == <<pin_mode, pin_level>>

mainTaskVars == <<hb_task_id, serial_task_id, hb_creates, serial_creates>>

hbCountVars == <<hb_toggles, hb_toggles_ok, hb_sleeps, since_toggle>>

\* --------------------------------------------------------------------- Init

Init ==
    /\ main_pc = "init_is_ready"
    /\ dev_ready \in BOOLEAN
    /\ is_ready_calls = 0
    /\ configure_calls = 0
    /\ configure_ret = 0
    /\ init_ret = FALSE
    /\ init_ret_defined = FALSE
    /\ console = <<>>
    /\ pin_mode = "disconnected"
    /\ pin_level = "inactive"
    /\ hb_task_id = "NULL"
    /\ serial_task_id = "NULL"
    /\ hb_task_tcb = UnusedTcb
    /\ serial_task_tcb = UnusedTcb
    /\ hb_creates = 0
    /\ serial_creates = 0
    /\ hb_toggles = 0
    /\ hb_toggles_ok = 0
    /\ hb_sleeps = 0
    /\ serial_sleeps = 0
    /\ since_toggle = 0

\* -------------------------------------------------------------- init_rutine

\* InitIsReady without the return in the not-ready branch: goes on to configure.
InitIsReady_noReturn ==
    /\ main_pc = "init_is_ready"
    /\ is_ready_calls' = is_ready_calls + 1
    /\ console' = IF ~dev_ready
                    THEN Append(console, "Heartbeat LED GPIO is not ready")
                    ELSE console
    /\ main_pc' = "init_configure"
    /\ UNCHANGED <<dev_ready, configure_calls, configure_ret, init_ret,
                   init_ret_defined, pinVars, mainTaskVars, hb_task_tcb,
                   serial_task_tcb, hbCountVars, serial_sleeps>>

\* if ( !gpio_is_ready_dt( &hb_led ) ) { printk; return false; }
InitIsReady ==
    /\ main_pc = "init_is_ready"
    /\ is_ready_calls' = is_ready_calls + 1
    /\ IF ~dev_ready
         THEN /\ console' = Append(console, "Heartbeat LED GPIO is not ready")
              /\ init_ret' = FALSE
              /\ init_ret_defined' = TRUE
              /\ main_pc' = "main_check"
         ELSE /\ main_pc' = "init_configure"
              /\ UNCHANGED <<console, init_ret, init_ret_defined>>
    /\ UNCHANGED <<dev_ready, configure_calls, configure_ret, pinVars,
                   mainTaskVars, hb_task_tcb, serial_task_tcb, hbCountVars,
                   serial_sleeps>>

\* InitConfigure with the status unchecked: a rejected configuration goes on
\* to the completion message with the pin left as it was.
InitConfigure_unchecked ==
    /\ main_pc = "init_configure"
    /\ \E status \in DriverStatus :
         /\ configure_calls' = configure_calls + 1
         /\ configure_ret' = status
         /\ IF status < 0
              THEN UNCHANGED pinVars
              ELSE /\ pin_mode' = "output"
                   /\ pin_level' = "active"
    /\ main_pc' = "init_complete"
    /\ UNCHANGED <<dev_ready, is_ready_calls, console, init_ret,
                   init_ret_defined, mainTaskVars, hb_task_tcb,
                   serial_task_tcb, hbCountVars, serial_sleeps>>

\* if ( gpio_pin_configure_dt( &hb_led, GPIO_OUTPUT_ACTIVE ) < 0 ) { printk; return false; }
InitConfigure ==
    /\ main_pc = "init_configure"
    /\ \E status \in DriverStatus :
         /\ configure_calls' = configure_calls + 1
         /\ configure_ret' = status
         /\ IF status < 0
              THEN /\ console' = Append(console, "Failed to configure heartbeat LED GPIO")
                   /\ init_ret' = FALSE
                   /\ init_ret_defined' = TRUE
                   /\ main_pc' = "main_check"
                   /\ UNCHANGED pinVars
              ELSE /\ pin_mode' = "output"
                   /\ pin_level' = "active"
                   /\ main_pc' = "init_complete"
                   /\ UNCHANGED <<console, init_ret, init_ret_defined>>
    /\ UNCHANGED <<dev_ready, is_ready_calls, mainTaskVars, hb_task_tcb,
                   serial_task_tcb, hbCountVars, serial_sleeps>>

\* The values main can read after init_rutine runs off its closing brace
\* without a return statement: the result register holds anything.
FallOffEndValues == BOOLEAN

\* printk( "Initialization complete\n" ); }   -- no return statement follows
InitComplete ==
    /\ main_pc = "init_complete"
    /\ console' = Append(console, "Initialization complete")
    /\ init_ret' \in FallOffEndValues
    /\ init_ret_defined' = FALSE
    /\ main_pc' = "main_check"
    /\ UNCHANGED <<dev_ready, is_ready_calls, configure_calls, configure_ret,
                   pinVars, mainTaskVars, hb_task_tcb, serial_task_tcb,
                   hbCountVars, serial_sleeps>>

\* --------------------------------------------------------------------- main

\* MainCheck with the branches exchanged.
MainCheck_inverted ==
    /\ main_pc = "main_check"
    /\ main_pc' = IF init_ret = TRUE THEN "print_failed" ELSE "create_hb"
    /\ UNCHANGED <<gateVars, console, pinVars, mainTaskVars, hb_task_tcb,
                   serial_task_tcb, hbCountVars, serial_sleeps>>

\* MainCheck that calls the gate again when it reported failure (a retry).
MainCheck_retry ==
    /\ main_pc = "main_check"
    /\ main_pc' = IF init_ret = TRUE THEN "create_hb" ELSE "init_is_ready"
    /\ UNCHANGED <<gateVars, console, pinVars, mainTaskVars, hb_task_tcb,
                   serial_task_tcb, hbCountVars, serial_sleeps>>

\* if( init_rutine( ) == true ) ... else ...
MainCheck ==
    /\ main_pc = "main_check"
    /\ main_pc' = IF init_ret = TRUE THEN "create_hb" ELSE "print_failed"
    /\ UNCHANGED <<gateVars, console, pinVars, mainTaskVars, hb_task_tcb,
                   serial_task_tcb, hbCountVars, serial_sleeps>>

\* k_thread_create( tcb, stack, size, entry, p1, p2, p3, prio, 0, K_NO_WAIT ):
\* the thread is ready at once, at the first statement of its entry function.
k_thread_create(entry, prio) ==
    [state |-> "ready", prio |-> prio, timeout |-> 0, pc |-> entry]

\* MainCreateHb with the serial task's priority passed for the heartbeat.
MainCreateHb_serialPrio ==
    /\ main_pc = "create_hb"
    /\ hb_task_tcb' = k_thread_create("hb_toggle", SERIAL_TASK_PRIORITY)
    /\ hb_task_id' = "hb_task_tcb"
    /\ hb_creates' = hb_creates + 1
    /\ main_pc' = "create_serial"
    /\ UNCHANGED <<gateVars, console, pinVars, serial_task_id,
                   serial_task_tcb, serial_creates, hbCountVars, serial_sleeps>>

\* hb_task_id = k_thread_create( &hb_task_tcb, ..., hb_task, ..., HB_TASK_PRIORITY, 0, K_NO_WAIT );
MainCreateHb ==
    /\ main_pc = "create_hb"
    /\ hb_task_tcb' = k_thread_create("hb_toggle", HB_TASK_PRIORITY)
    /\ hb_task_id' = "hb_task_tcb"
    /\ hb_creates' = hb_creates + 1
    /\ main_pc' = "create_serial"
    /\ UNCHANGED <<gateVars, console, pinVars, serial_task_id,
                   serial_task_tcb, serial_creates, hbCountVars, serial_sleeps>>

\* serial_task_id = k_thread_create( &serial_task_tcb, ..., serial_task, ..., SERIAL_TASK_PRIORITY, 0, K_NO_WAIT );
MainCreateSerial ==
    /\ main_pc = "create_serial"
    /\ serial_task_tcb' = k_thread_create("serial_sleep", SERIAL_TASK_PRIORITY)
    /\ serial_task_id' = "serial_task_tcb"
    /\ serial_creates' = serial_creates + 1
    /\ main_pc' = "return"
    /\ UNCHANGED <<gateVars, console, pinVars, hb_task_id, hb_task_tcb,
                   hb_creates, hbCountVars, serial_sleeps>>

\* MainReturn that aborts the two tasks before main returns.
MainReturn_abort ==
    /\ main_pc = "return"
    /\ main_pc' = "returned"
    /\ hb_task_tcb' = [hb_task_tcb EXCEPT !.state = "dead", !.timeout = 0]
    /\ serial_task_tcb' = [serial_task_tcb EXCEPT !.state = "dead", !.timeout = 0]
    /\ UNCHANGED <<gateVars, console, pinVars, mainTaskVars, hbCountVars,
                   serial_sleeps>>

\* return 0;
MainReturn ==
    /\ main_pc = "return"
    /\ main_pc' = "returned"
    /\ UNCHANGED <<gateVars, console, pinVars, mainTaskVars, hb_task_tcb,
                   serial_task_tcb, hbCountVars, serial_sleeps>>

\* printk( "Initialization failed\n" );
MainPrintFailed ==
    /\ main_pc = "print_failed"
    /\ console' = Append(console, "Initialization failed")
    /\ main_pc' = "idle"
    /\ UNCHANGED <<gateVars, pinVars, mainTaskVars, hb_task_tcb,
                   serial_task_tcb, hbCountVars, serial_sleeps>>

\* while( true );
MainIdle ==
    /\ main_pc = "idle"
    /\ main_pc' = "idle"
    /\ UNCHANGED <<gateVars, console, pinVars, mainTaskVars, hb_task_tcb,
                   serial_task_tcb, hbCountVars, serial_sleeps>>

\* ---------------------------------------------------------------- scheduler

\* The scheduler runs a ready thread only if no ready thread has a
\* numerically lower priority.
Runnable(tcb, other) ==
    /\ tcb.state = "ready"
    /\ ~(other.state = "ready" /\ other.prio < tcb.prio)

\* k_msleep( ms ): the caller is suspended on its own timeout.
k_msleep(tcb, ms, next) ==
    [tcb EXCEPT !.state = "sleeping", !.timeout = ms, !.pc = next]

\* One step of the clock for a thread: a sleeping thread's timeout runs
\* down and the thread is made ready when it has expired.
Elapse(tcb) ==
    IF tcb.state = "sleeping"
      THEN IF tcb.timeout - TimeStep <= 0
             THEN [tcb EXCEPT !.state = "ready", !.timeout = 0]
             ELSE [tcb EXCEPT !.timeout = tcb.timeout - TimeStep]
      ELSE tcb

\* ------------------------------------------------------------------ hb_task

\* HbToggle with the status checked: a failed toggle is reported and the
\* task leaves its loop.
HbToggle_checked ==
    /\ Runnable(hb_task_tcb, serial_task_tcb)
    /\ hb_task_tcb.pc = "hb_toggle"
    /\ \E status \in DriverStatus :
         IF status = 0
           THEN /\ pin_level' = (IF pin_level = "active" THEN "inactive" ELSE "active")
                /\ hb_toggles_ok' = Bump(hb_toggles_ok)
                /\ hb_task_tcb' = [hb_task_tcb EXCEPT !.pc = "hb_sleep"]
                /\ UNCHANGED console
           ELSE /\ console' = Append(console, "Heartbeat toggle failed")
                /\ hb_task_tcb' = [hb_task_tcb EXCEPT !.state = "dead", !.pc = "exit"]
                /\ UNCHANGED <<pin_level, hb_toggles_ok>>
    /\ hb_toggles' = Bump(hb_toggles)
    /\ since_toggle' = 0
    /\ UNCHANGED <<main_pc, gateVars, pin_mode, mainTaskVars,
                   serial_task_tcb, hb_sleeps, serial_sleeps>>

\* gpio_pin_toggle_dt( led_spec );   -- the status is discarded
HbToggle ==
    /\ Runnable(hb_task_tcb, serial_task_tcb)
    /\ hb_task_tcb.pc = "hb_toggle"
    /\ \E status \in DriverStatus :
         /\ pin_level' = IF status = 0
                           THEN (IF pin_level = "active" THEN "inactive" ELSE "active")
                           ELSE pin_level
         /\ hb_toggles_ok' = IF status = 0 THEN Bump(hb_toggles_ok) ELSE hb_toggles_ok
    /\ hb_toggles' = Bump(hb_toggles)
    /\ since_toggle' = 0
    /\ hb_task_tcb' = [hb_task_tcb EXCEPT !.pc = "hb_sleep"]
    /\ UNCHANGED <<main_pc, gateVars, console, pin_mode, mainTaskVars,
                   serial_task_tcb, hb_sleeps, serial_sleeps>>

\* HbSleep with the serial task's interval.
HbSleep_short ==
    /\ Runnable(hb_task_tcb, serial_task_tcb)
    /\ hb_task_tcb.pc = "hb_sleep"
    /\ hb_task_tcb' = k_msleep(hb_task_tcb, SERIAL_SLEEP_MS, "hb_toggle")
    /\ hb_sleeps' = Bump(hb_sleeps)
    /\ UNCHANGED <<main_pc, gateVars, console, pinVars, mainTaskVars,
                   serial_task_tcb, hb_toggles, hb_toggles_ok, since_toggle,
                   serial_sleeps>>

\* HbSleep with no timeout (K_FOREVER): nothing ever wakes the task.
HbSleep_forever ==
    /\ Runnable(hb_task_tcb, serial_task_tcb)
    /\ hb_task_tcb.pc = "hb_sleep"
    /\ hb_task_tcb' = [hb_task_tcb EXCEPT !.state = "suspended", !.pc = "hb_toggle"]
    /\ hb_sleeps' = Bump(hb_sleeps)
    /\ UNCHANGED <<main_pc, gateVars, console, pinVars, mainTaskVars,
                   serial_task_tcb, hb_toggles, hb_toggles_ok, since_toggle,
                   serial_sleeps>>

\* HbSleep that does not suspend: the loop goes straight to the next toggle.
HbSleep_busy ==
    /\ Runnable(hb_task_tcb, serial_task_tcb)
    /\ hb_task_tcb.pc = "hb_sleep"
    /\ hb_task_tcb' = [hb_task_tcb EXCEPT !.pc = "hb_toggle"]
    /\ hb_sleeps' = Bump(hb_sleeps)
    /\ UNCHANGED <<main_pc, gateVars, console, pinVars, mainTaskVars,
                   serial_task_tcb, hb_toggles, hb_toggles_ok, since_toggle,
                   serial_sleeps>>

\* k_msleep( 1000 );
HbSleep ==
    /\ Runnable(hb_task_tcb, serial_task_tcb)
    /\ hb_task_tcb.pc = "hb_sleep"
    /\ hb_task_tcb' = k_msleep(hb_task_tcb, HB_SLEEP_MS, "hb_toggle")
    /\ hb_sleeps' = Bump(hb_sleeps)
    /\ UNCHANGED <<main_pc, gateVars, console, pinVars, mainTaskVars,
                   serial_task_tcb, hb_toggles, hb_toggles_ok, since_toggle,
                   serial_sleeps>>

\* -------------------------------------------------------------- serial_task

\* SerialSleep with the heartbeat's loop body copied in: the serial task
\* toggles the line before it sleeps.
SerialSleep_toggles ==
    /\ Runnable(serial_task_tcb, hb_task_tcb)
    /\ serial_task_tcb.pc = "serial_sleep"
    /\ pin_level' = IF pin_level = "active" THEN "inactive" ELSE "active"
    /\ serial_task_tcb' = k_msleep(serial_task_tcb, SERIAL_SLEEP_MS, "serial_sleep")
    /\ serial_sleeps' = Bump(serial_sleeps)
    /\ UNCHANGED <<main_pc, gateVars, console, pin_mode, mainTaskVars,
                   hb_task_tcb, hbCountVars>>

\* k_msleep( 500 );
SerialSleep ==
    /\ Runnable(serial_task_tcb, hb_task_tcb)
    /\ serial_task_tcb.pc = "serial_sleep"
    /\ serial_task_tcb' = k_msleep(serial_task_tcb, SERIAL_SLEEP_MS, "serial_sleep")
    /\ serial_sleeps' = Bump(serial_sleeps)
    /\ UNCHANGED <<main_pc, gateVars, console, pinVars, mainTaskVars,
                   hb_task_tcb, hbCountVars>>

\* -------------------------------------------------------------------- clock

\* TimeStep milliseconds pass.
Tick ==
    /\ hb_task_tcb' = Elapse(hb_task_tcb)
    /\ serial_task_tcb' = Elapse(serial_task_tcb)
    /\ since_toggle' = Min(since_toggle + TimeStep, HB_SLEEP_MS)
    /\ UNCHANGED <<main_pc, gateVars, console, pinVars, mainTaskVars,
                   hb_toggles, hb_toggles_ok, hb_sleeps, serial_sleeps>>

\* ------------------------------------------------------------ specification

MainStep ==
    \/ InitIsReady
    \/ InitConfigure
    \/ InitComplete
    \/ MainCheck
    \/ MainCreateHb
    \/ MainCreateSerial
    \/ MainReturn
    \/ MainPrintFailed
    \/ MainIdle

HbStep == HbToggle \/ HbSleep

SerialStep == SerialSleep

\* main.c does not set the priority of the thread that runs main (it is
\* build configuration), so main's steps interleave freely with the tasks';
\* between the two tasks the priorities given to k_thread_create decide.
Next == MainStep \/ HbStep \/ SerialStep \/ Tick

Spec == Init /\ [][Next]_vars

\* The scheduler gives the processor to main until it returns or idles, to
\* every thread that is again and again the one to run, and the clock runs.
FairSpec ==
    /\ Spec
    /\ WF_vars(MainStep)
    /\ SF_vars(HbStep)
    /\ SF_vars(SerialStep)
    /\ WF_vars(Tick)

\* ------------------------------------------------------ shared predicates

\* init_rutine has come back to main.
GateReturned == main_pc \notin {"init_is_ready", "init_configure", "init_complete"}

\* The result main reads from the gate.
GateFailed == GateReturned /\ init_ret = FALSE

GateSucceeded == GateReturned /\ init_ret = TRUE

NoTaskCreated ==
    /\ hb_creates = 0
    /\ serial_creates = 0
    /\ hb_task_tcb = UnusedTcb
    /\ serial_task_tcb = UnusedTcb
    /\ hb_task_id = "NULL"
    /\ serial_task_id = "NULL"

HbExists == hb_task_tcb.state # "unused"

SerialExists == serial_task_tcb.state # "unused"

Printed(line) == \E i \in 1..Len(console) : console[i] = line

\* ----------------------------------------------------------------------- C1

\* C1: on every boot in which init_rutine reports failure, no task is ever
\* created, main reaches its idle loop and never leaves it, and the GPIO
\* line (mode and level) never changes after the failure.
C1_GateFailureHalts ==
    /\ [](GateFailed => NoTaskCreated)
    /\ (GateFailed ~> (main_pc = "idle"))
    /\ [][main_pc = "idle" => main_pc' = "idle"]_vars
    /\ [][GateFailed => (GateFailed' /\ pin_level' = pin_level /\ pin_mode' = pin_mode)]_vars

\* The gate failed, main sits in the idle loop and time has passed since.
C1_Witness ==
    /\ GateFailed
    /\ main_pc = "idle"
    /\ Printed("Initialization failed")
    /\ since_toggle = HB_SLEEP_MS

\* ----------------------------------------------------------------------- C2

\* C2: on every boot in which init_rutine reports success, hb_task and
\* serial_task are each created exactly once (eventually once, never twice),
\* and the line is an output driven active before hb_task's first toggle.
C2_GateSuccessSpawnsOnce ==
    /\ [](hb_creates <= 1 /\ serial_creates <= 1)
    /\ (GateSucceeded ~> (hb_creates = 1 /\ serial_creates = 1))
    /\ [](GateSucceeded /\ main_pc \in {"return", "returned"}
            => hb_creates = 1 /\ serial_creates = 1)
    /\ [](HbExists /\ hb_toggles = 0 => pin_mode = "output" /\ pin_level = "active")
    /\ [](hb_toggles > 0 => pin_mode = "output")

\* Both tasks created once and the heartbeat has toggled for the first time.
C2_Witness ==
    /\ GateSucceeded
    /\ hb_creates = 1
    /\ serial_creates = 1
    /\ hb_toggles = 1
    /\ pin_mode = "output"

\* ----------------------------------------------------------------------- C3

\* C3: when the driver is ready and the configuration call returns a
\* non-negative status, init_rutine logs "Initialization complete" and
\* returns a defined value equal to true, so main takes the spawn branch.
C3_SuccessPathReturnsTrue ==
    (GateReturned /\ dev_ready /\ configure_calls = 1 /\ configure_ret >= 0)
        => /\ Printed("Initialization complete")
           /\ init_ret_defined
           /\ init_ret = TRUE
           /\ main_pc \notin {"print_failed", "idle"}

\* ----------------------------------------------------------------------- C4

\* C4: when the driver reports not-ready, init_rutine returns false after
\* printing "Heartbeat LED GPIO is not ready", in a single pass, without
\* ever calling the configuration (the pin stays unconfigured), and no
\* thread is created.
C4_NotReadyFails ==
    (GateReturned /\ ~dev_ready)
        => /\ init_ret_defined
           /\ init_ret = FALSE
           /\ Len(console) >= 1
           /\ console[1] = "Heartbeat LED GPIO is not ready"
           /\ ~Printed("Initialization complete")
           /\ is_ready_calls = 1
           /\ configure_calls = 0
           /\ pin_mode = "disconnected"
           /\ NoTaskCreated

\* Driver not ready, gate returned, main halted.
C4_Witness ==
    /\ ~dev_ready
    /\ GateReturned
    /\ main_pc = "idle"
    /\ console = <<"Heartbeat LED GPIO is not ready", "Initialization failed">>

\* ----------------------------------------------------------------------- C5

\* C5: when the driver is ready but the configuration call returns a
\* negative status, init_rutine returns false after printing "Failed to
\* configure heartbeat LED GPIO", never prints "Initialization complete",
\* and no thread is created.
C5_ConfigureRejectedFails ==
    (main_pc # "init_configure" /\ configure_calls >= 1 /\ configure_ret < 0)
        => /\ GateReturned
           /\ init_ret_defined
           /\ init_ret = FALSE
           /\ console[1] = "Failed to configure heartbeat LED GPIO"
           /\ ~Printed("Initialization complete")
           /\ configure_calls = 1
           /\ NoTaskCreated

\* Driver ready, configuration rejected, main halted.
C5_Witness ==
    /\ dev_ready
    /\ configure_calls = 1
    /\ configure_ret < 0
    /\ main_pc = "idle"
    /\ console = <<"Failed to configure heartbeat LED GPIO", "Initialization failed">>

\* ----------------------------------------------------------------------- C6

\* C6 as stated: every toggle call of the heartbeat flips the line, so
\* that, counting from the configured active level, the line is active
\* exactly after an even number of toggle calls.
C6_EveryToggleCallAlternates ==
    (HbExists /\ hb_toggles < MaxCount)
        => (pin_level = "active" <=> hb_toggles % 2 = 0)

\* C6 (amended): every toggle call that returns success flips the line and
\* nothing else changes it, so from the configured active level the line is
\* active exactly after an even number of successful toggles; the first
\* toggle call comes before any sleep of the task; and a toggle call after
\* the first comes at least 1000 ms after the one before it.
C6_SuccessfulTogglesAlternate ==
    /\ (HbExists /\ hb_toggles_ok < MaxCount)
          => (pin_level = "active" <=> hb_toggles_ok % 2 = 0)
    /\ (hb_toggles = 0 => hb_sleeps = 0)
    /\ hb_sleeps <= hb_toggles
    /\ (hb_task_tcb.state = "ready" /\ hb_task_tcb.pc = "hb_toggle" /\ hb_toggles > 0)
          => since_toggle >= 1000

\* Two successful toggles done (active, inactive, active) and the task is
\* about to toggle a third time.
C6_Witness ==
    /\ hb_toggles = 2
    /\ hb_toggles_ok = 2
    /\ pin_level = "active"
    /\ hb_task_tcb.state = "ready"
    /\ hb_task_tcb.pc = "hb_toggle"

\* ----------------------------------------------------------------------- C7

\* C7: main never reaches its `return 0` statement, whether the gate
\* succeeds or fails.
C7_MainNeverReturns == main_pc \notin {"return", "returned"}

\* ----------------------------------------------------------------------- C8

\* C8: whenever both tasks exist, the heartbeat's priority is numerically
\* lower than (and so distinct from) the serial task's, and a task's
\* priority never changes after its creation.
C8_PriorityOrder ==
    /\ []((HbExists /\ SerialExists) => hb_task_tcb.prio < serial_task_tcb.prio)
    /\ [][HbExists => hb_task_tcb'.prio = hb_task_tcb.prio]_vars
    /\ [][SerialExists => serial_task_tcb'.prio = serial_task_tcb.prio]_vars

\* Both tasks exist, with their priorities, and both have run.
C8_Witness ==
    /\ HbExists
    /\ SerialExists
    /\ hb_task_tcb.prio = 5
    /\ serial_task_tcb.prio = 6
    /\ hb_toggles > 0
    /\ serial_sleeps > 0

\* ----------------------------------------------------------------------- C9

ReadyOrTimedSleep(tcb) ==
    \/ tcb.state = "ready" /\ tcb.timeout = 0
    \/ tcb.state = "sleeping" /\ tcb.timeout > 0

\* C10: once created, each task is either ready or suspended on its own
\* timed sleep, never on anything else; in every state with both tasks some
\* task can run or a sleeping task's timeout can run down (no deadlock);
\* and under a fair scheduler the serial task goes to sleep and wakes up
\* again and again, although it has the lower priority.
C10_OnlyTimedSleeps ==
    /\ [](HbExists => ReadyOrTimedSleep(hb_task_tcb))
    /\ [](SerialExists => ReadyOrTimedSleep(serial_task_tcb))
    /\ []((HbExists /\ SerialExists) =>
            \/ ENABLED HbStep
            \/ ENABLED SerialStep
            \/ (ENABLED <<Tick>>_vars /\
                  (hb_task_tcb.state = "sleeping" \/ serial_task_tcb.state = "sleeping")))
    /\ (SerialExists ~> (serial_task_tcb.state = "sleeping"))
    /\ ((serial_task_tcb.state = "sleeping") ~> (serial_task_tcb.state = "ready"))

\* Both tasks asleep at once, the serial task after MaxCount sleeps.
C10_Witness ==
    /\ hb_task_tcb.state = "sleeping"
    /\ serial_task_tcb.state = "sleeping"
    /\ serial_sleeps = MaxCount
    /\ hb_toggles > 0

\* ---------------------------------------------------------------------- C11

\* Both tasks are ready to run at the same instant.
BothReady == hb_task_tcb.state = "ready" /\ serial_task_tcb.state = "ready"

\* C11: whenever the heartbeat task and the serial task are ready at the
\* same instant (after creation, or after their timeouts expired together),
\* the heartbeat task is the one that can run and the serial task cannot:
\* no step taken from such a state is a step of the serial task.
C11_HeartbeatRunsFirst ==
    /\ [](BothReady => (ENABLED HbStep /\ ~ENABLED SerialStep))
    /\ [][BothReady => (serial_task_tcb' = serial_task_tcb /\ serial_sleeps' = serial_sleeps)]_vars

\* Both timeouts have expired (the heartbeat's first sleep, the serial
\* task's second) and both tasks are ready, the heartbeat at its toggle.
C11_Witness ==
    /\ BothReady
    /\ hb_sleeps = 1
    /\ serial_sleeps = 2
    /\ hb_task_tcb.pc = "hb_toggle"
    /\ since_toggle = HB_SLEEP_MS

\* ---------------------------------------------------------------------- C12

\* The step is the heartbeat task's gpio_pin_toggle_dt call.
IsHbToggleStep ==
    /\ hb_task_tcb.state = "ready"
    /\ hb_task_tcb.pc = "hb_toggle"
    /\ hb_task_tcb'.pc = "hb_sleep"

\* The step is a step of the serial task (it goes to sleep).
IsSerialStep ==
    /\ serial_task_tcb.state = "ready"
    /\ serial_task_tcb'.state = "sleeping"

\* C12: once the gate has returned, the line (mode and level) changes only
\* in a toggle step of the heartbeat task: every step of the serial task
\* and every step of main after the gate leaves it unchanged.
C12_OnlyHeartbeatWritesLine ==
    /\ [][(GateReturned /\ pinVars' # pinVars) => IsHbToggleStep]_vars
    /\ [][IsSerialStep => pinVars' = pinVars]_vars
    /\ [][(GateReturned /\ main_pc' # main_pc) => pinVars' = pinVars]_vars
    /\ [](pin_mode = "output" => configure_calls = 1)

\* The heartbeat has written the line, the serial task has run as well and
\* main has left the spawn branch.
C12_Witness ==
    /\ main_pc = "returned"
    /\ hb_toggles_ok = 1
    /\ pin_level = "inactive"
    /\ serial_sleeps = 2

\* ---------------------------------------------------------------------- C13

\* C13: the gate has returned before any task is created, the heartbeat
\* task is created before the serial task, and the gate (its readiness
\* check and its pin configuration) runs at most once per boot: once it has
\* returned it is never entered again.
C13_BootOrder ==
    /\ []((hb_creates > 0 \/ serial_creates > 0 \/ HbExists \/ SerialExists)
            => GateReturned)
    /\ []((serial_creates > 0 \/ SerialExists) => (hb_creates = 1 /\ HbExists))
    /\ [](is_ready_calls <= 1 /\ configure_calls <= 1)
    /\ [](GateReturned => is_ready_calls = 1)
    /\ [][GateReturned => GateReturned']_vars
    /\ [][GateReturned => (is_ready_calls' = is_ready_calls
                           /\ configure_calls' = configure_calls)]_vars

\* Long after boot: both tasks exist and run, the gate ran once.
C13_Witness ==
    /\ HbExists
    /\ SerialExists
    /\ is_ready_calls = 1
    /\ configure_calls = 1
    /\ hb_toggles = MaxCount
    /\ serial_sleeps = MaxCount

\* ---------------------------------------------------------------------- C14

\* Some gpio_pin_toggle_dt call of the heartbeat task has returned an error.
ToggleFailureSeen == hb_toggles_ok < hb_toggles

\* C14: whatever status a toggle call returns, the heartbeat task prints
\* nothing, stays in its loop (at the toggle or at the sleep, ready or in
\* its timed sleep), goes on to sleep 1000 ms and, under a fair scheduler,
\* wakes up and makes the next toggle call.
C14_ToggleFailureIgnored ==
    /\ [](HbExists => /\ hb_task_tcb.pc \in {"hb_toggle", "hb_sleep"}
                      /\ hb_task_tcb.state \in {"ready", "sleeping"}
                      /\ console = <<"Initialization complete">>)
    /\ [][IsHbToggleStep => (console' = console /\ hb_task_tcb'.state = "ready")]_vars
    /\ [][(hb_task_tcb.pc = "hb_sleep" /\ hb_task_tcb' # hb_task_tcb)
            => hb_task_tcb' = k_msleep(hb_task_tcb, 1000, "hb_toggle")]_vars
    /\ ((ToggleFailureSeen /\ hb_task_tcb.pc = "hb_sleep")
            ~> (hb_task_tcb.state = "sleeping"))
    /\ ((ToggleFailureSeen /\ hb_task_tcb.state = "sleeping")
            ~> (hb_task_tcb.state = "ready" /\ hb_task_tcb.pc = "hb_toggle"))
    /\ ((ToggleFailureSeen /\ hb_task_tcb.state = "ready" /\ hb_task_tcb.pc = "hb_toggle")
            ~> (hb_task_tcb.pc = "hb_sleep"))

\* Every toggle call so far has failed (the line is still at its configured
\* level) and the task is in its sleep once more.
C14_Witness ==
    /\ hb_toggles = MaxCount
    /\ hb_toggles_ok = 0
    /\ pin_level = "active"
    /\ hb_sleeps = MaxCount
    /\ hb_task_tcb.state = "sleeping"

\* ---------------------------------------------------------------------- C15

\* A thread that has been created and has not ended.
Live(tcb) == tcb.state \in {"ready", "sleeping"}

LiveTasks == (IF Live(hb_task_tcb) THEN 1 ELSE 0)
             + (IF Live(serial_task_tcb) THEN 1 ELSE 0)

\* C15: a task, once created, is never ended, restarted or created again:
\* the number of live tasks never decreases, it is 0 before the spawn and
\* for ever after a gate failure, and once a task exists it reaches exactly
\* 2; each k_thread_create runs at most once, the task handles never change
\* once set, and no step of main after a creation touches a task.
C15_TasksNeverEnd ==
    /\ [](LiveTasks \in 0..2)
    /\ [][LiveTasks' >= LiveTasks]_vars
    /\ [](GateFailed => LiveTasks = 0)
    /\ [](Live(hb_task_tcb) <=> hb_creates = 1)
    /\ [](Live(serial_task_tcb) <=> serial_creates = 1)
    /\ [][hb_creates = 1 => (hb_creates' = 1 /\ hb_task_id' = hb_task_id)]_vars
    /\ [][serial_creates = 1 => (serial_creates' = 1 /\ serial_task_id' = serial_task_id)]_vars
    /\ [][(main_pc' # main_pc /\ serial_creates = 1)
            => (hb_task_tcb' = hb_task_tcb /\ serial_task_tcb' = serial_task_tcb)]_vars
    /\ ((LiveTasks > 0) ~> (LiveTasks = 2))

\* main has returned and both tasks are alive and have run MaxCount times.
C15_Witness ==
    /\ main_pc = "returned"
    /\ LiveTasks = 2
    /\ hb_toggles = MaxCount
    /\ serial_sleeps = MaxCount

\* ---------------------------------------------------------------------- C16

\* The two failure diagnostics of init_rutine.
GateFailureDiagnostics ==
    {"Heartbeat LED GPIO is not ready", "Failed to configure heartbeat LED GPIO"}

\* The three diagnostics of init_rutine.
GateDiagnostics == GateFailureDiagnostics \cup {"Initialization complete"}

\* C16: once the gate has returned it has printed exactly one of its three
\* diagnostics; "Initialization failed" is printed only after one of the
\* two failure diagnostics, never together with "Initialization complete",
\* and once main has taken its branch it has been printed exactly if a
\* failure diagnostic was.
C16_DiagnosticsConsistent ==
    GateReturned =>
        /\ Cardinality({i \in 1..Len(console) : console[i] \in GateDiagnostics}) = 1
        /\ console[1] \in GateDiagnostics
        /\ Printed("Initialization failed")
              => (console[1] \in GateFailureDiagnostics
                  /\ console = <<console[1], "Initialization failed">>)
        /\ ~(Printed("Initialization failed") /\ Printed("Initialization complete"))
        /\ main_pc \notin {"main_check", "print_failed"}
              => (Printed("Initialization failed")
                    <=> console[1] \in GateFailureDiagnostics)

====
